---- MODULE Spec2Model ----
(***************************************************************************)
(* Funding-rate arbitrage bot: the hourly scheduler (run_hourly), one      *)
(* pipeline cycle (main), the two rate adapters (get_hyperliquid_funding,  *)
(* get_paradex_funding), the detector/ranking/formatting block of main and *)
(* the delivery fan-out (send_telegram_message).                           *)
(*                                                                         *)
(* Both source files (bot.py, FundingArbitrageBot.py) hold the same        *)
(* pipeline; line numbers in comments are those of FundingArbitrageBot.py  *)
(* unless bot.py is named.                                                 *)
(*                                                                         *)
(* Abstractions, stated once:                                              *)
(*  - a coin is a number 1..n standing for its ticker string;              *)
(*  - a funding rate is an integer number of rate units; the percent rate  *)
(*    is rate * PctFactor, exact (the code multiplies floats by 100);      *)
(*  - wall-clock time is counted in ticks, HourTicks ticks to the hour;    *)
(*    the sub-second pauses of the adapters are recorded as values (ms)    *)
(*    and do not advance the tick clock by themselves;                     *)
(*  - asyncio is single-threaded: one action is one run of a coroutine     *)
(*    from one suspension point (await) to the next.                       *)
(***************************************************************************)
EXTENDS Integers, Sequences, FiniteSets, TLC

\* ------------------------------------------------------------ bounds
\* Coins beyond the report size that the detector specification draws.
ExtraCoins == 1
\* Coins the exchange listings may hold in the pipeline specification.
MaxListed == 1
\* Ticks of wall-clock time to one hour.
HourTicks == 2
\* Last tick of the modelled time line.
MaxTime == 4

\* ------------------------------------------------- program constants
\* arbitrage_opportunities[:5]
TopN == 5
\* hyper_rate = hyper_data[coin] * 100
PctFactor == 100
\* for i in range(0, len(all_coins), 5)
BatchSize == 5
\* get_funding_for_coin(..., retries=3)
Retries == 3
\* await asyncio.sleep(0.2 * (attempt + 1)), in milliseconds
BackoffMs == 200
\* await asyncio.sleep(0.1) after a non-200 or empty response, in milliseconds
StatusPauseMs == 100
\* await asyncio.sleep(0.2) between batches / markets, in milliseconds
BatchPauseMs == 200

\* ------------------------------------------------------- value sets
\* Rates (in rate units) an exchange may report; a result of "no data" is
\* a separate response kind, never one of these.
HyperRates == {0, 2}
ParaRates == {0, 1}
\* PYTHONHASHSEED classes: the iteration order of a set of ticker strings
\* is fixed within one process and may differ between processes.
HashSeeds == {0, 1}
\* Telegram chat ids.
Chats == {"u1", "u2"}

DetectCoins == 1 .. (TopN + ExtraCoins)

VARIABLES
    \* run_hourly
    now,            \* wall clock, in ticks
    sched,          \* "Running" | "Idle" | "Stopped"
    wake,           \* the tick at which asyncio.sleep(wait_seconds) returns
    cycle,          \* number of calls of main() so far
    \* main
    pc,             \* position of main() (its current suspension point)
    outcome,        \* how the last finished cycle ended
    \* get_hyperliquid_funding
    hyper_listing,  \* environment: the universe the exchange lists
    hyper_quotes,   \* environment: the rates the exchange may report
    all_coins,
    batch_start,    \* loop variable i
    tasks,          \* coin of the current batch -> state of its coroutine
    all_results,    \* coin -> rate, the results gathered so far
    hyper_data,
    \* get_paradex_funding
    para_listing,   \* environment: the markets the exchange lists
    para_quotes,    \* environment: the rates the exchange may report
    markets,
    market_i,
    para_results,
    para_data,
    \* detector, ranking, formatter
    hashseed,
    computed,       \* arbitrage_opportunities before sort and truncation
    arbitrage_opportunities,
    message,
    \* subscriber store and delivery
    store,          \* the users file: [exists, ids] and, as history, its
                    \* last writer
    users,
    sent,
    \* history (not read by the program)
    last_start,     \* the tick at which main() was last called
    succeeded,      \* <<exchange, symbol>> whose request got a usable answer
    para_req,       \* the request for markets[market_i]: its count and state
    last_started    \* the chats whose last command so far was /start

schedVars == <<now, sched, wake, cycle, pc, outcome, last_start>>
envVars == <<hyper_listing, hyper_quotes, para_listing, para_quotes, hashseed>>
hyperVars == <<all_coins, batch_start, tasks, all_results, hyper_data>>
paraVars == <<markets, market_i, para_results, para_data>>
detVars == <<computed, arbitrage_opportunities, message>>
sendVars == <<store, users, sent>>
histVars == <<succeeded, para_req>>
cmdVars == <<last_started>>
vars == <<schedVars, envVars, hyperVars, paraVars, detVars, sendVars, histVars,
          cmdVars>>

\* ------------------------------------------------------------ helpers
Min(a, b) == IF a <= b THEN a ELSE b

\* abs()
Abs(x) == IF x < 0 THEN -x ELSE x

\* The empty dict.
EmptyMap == [c \in {} |-> 0]

\* ------------------------------------------------------------ detector
\* Iteration order of a Python set of tickers: ascending or descending coin
\* number, by the process's hash seed.
RECURSIVE SetOrder(_, _)
SetOrder(S, seed) ==
    IF S = {} THEN <<>>
    ELSE LET c == IF seed = 0
                  THEN CHOOSE x \in S : \A y \in S : x <= y
                  ELSE CHOOSE x \in S : \A y \in S : x >= y
         IN <<c>> \o SetOrder(S \ {c}, seed)

\* common_coins = set(hyper_data.keys()) & set(para_data.keys())
CommonCoins(hd, pd) == DOMAIN hd \cap DOMAIN pd

\* if hyper_rate > para_rate: short/long else: long/short
HyperDirectionGeq(hyper_rate, para_rate) ==
    IF hyper_rate >= para_rate THEN "short" ELSE "long"
HyperDirectionFlipped(hyper_rate, para_rate) ==
    IF hyper_rate > para_rate THEN "long" ELSE "short"
HyperDirection(hyper_rate, para_rate) ==
    IF hyper_rate > para_rate THEN "short" ELSE "long"

ParaDirection(hyper_rate, para_rate) ==
    IF hyper_rate > para_rate THEN "long" ELSE "short"

\* The dict appended for one coin.
Opportunity(coin, hd, pd) ==
    LET hyper_rate == hd[coin] * PctFactor
        para_rate == pd[coin] * PctFactor
    IN [coin |-> coin,
        hyper_rate |-> hyper_rate,
        para_rate |-> para_rate,
        difference |-> Abs(hyper_rate - para_rate),
        hyper_direction |-> HyperDirection(hyper_rate, para_rate),
        para_direction |-> ParaDirection(hyper_rate, para_rate)]

\* for coin in common_coins: ... arbitrage_opportunities.append({...})
OpportunitiesOfHyper(hd, pd, seed) ==
    LET order == SetOrder(DOMAIN hd, seed)
        padded == [c \in DOMAIN hd |-> IF c \in DOMAIN pd THEN pd[c] ELSE 0]
    IN [i \in 1 .. Len(order) |-> Opportunity(order[i], hd, padded)]
Opportunities(hd, pd, seed) ==
    LET order == SetOrder(CommonCoins(hd, pd), seed)
    IN [i \in 1 .. Len(order) |-> Opportunity(order[i], hd, pd)]

\* list.sort(key=difference, reverse=True): stable, so x goes after every
\* element whose difference is greater than or equal to its own.
RECURSIVE InsertAsc(_, _)
InsertAsc(s, x) ==
    IF s = <<>> THEN <<x>>
    ELSE IF Head(s).difference <= x.difference
         THEN <<Head(s)>> \o InsertAsc(Tail(s), x)
         ELSE <<x>> \o s
RECURSIVE InsertDesc(_, _)
InsertDesc(s, x) ==
    IF s = <<>> THEN <<x>>
    ELSE IF Head(s).difference >= x.difference
         THEN <<Head(s)>> \o InsertDesc(Tail(s), x)
         ELSE <<x>> \o s

RECURSIVE SortAscending(_)
SortAscending(s) ==
    IF s = <<>> THEN <<>>
    ELSE InsertAsc(SortAscending(SubSeq(s, 1, Len(s) - 1)), s[Len(s)])
RECURSIVE SortByDifference(_)
SortByDifference(s) ==
    IF s = <<>> THEN <<>>
    ELSE InsertDesc(SortByDifference(SubSeq(s, 1, Len(s) - 1)), s[Len(s)])

\* arbitrage_opportunities[:5]
Truncate(s) == SubSeq(s, 1, Min(Len(s), TopN))

\* The sorted, truncated list of main().
RankedNoSort(opps) == Truncate(opps)
Ranked(opps) == Truncate(SortByDifference(opps))

\* The formatter: no payload for an empty report, else the text as the
\* sequence of its lines: the header line and "\n\n" (a blank line), then
\* for each opportunity four lines and "\n\n" (a blank line).
NoMessage == <<>>
Blank == <<"blank">>
FormatLinesNoSpread(arb) ==
    << <<"symbol", arb.coin>>,
       <<"Hyperliquid", arb.hyper_direction, arb.hyper_rate>>,
       <<"Paradex", arb.para_direction, arb.para_rate>>,
       Blank >>
FormatLines(arb) ==
    << <<"symbol", arb.coin>>,
       <<"Hyperliquid", arb.hyper_direction, arb.hyper_rate>>,
       <<"Paradex", arb.para_direction, arb.para_rate>>,
       <<"Difference", arb.difference>>,
       Blank >>
RECURSIVE FormatBody(_)
FormatBody(report) ==
    IF report = <<>> THEN <<>>
    ELSE FormatLines(Head(report)) \o FormatBody(Tail(report))
Format(report, time) ==
    IF report = <<>> THEN NoMessage
    ELSE << <<"header", time>>, Blank >> \o FormatBody(report)

\* ----------------------------------------------------------- scheduler
\* next_hour = now.replace(minute=0, second=0, microsecond=0) + timedelta(hours=1)
NextHourFixedSleep(t) == t + HourTicks
NextHour(t) == ((t \div HourTicks) + 1) * HourTicks

\* No request made yet for the current market.
NoRequest == [issued |-> 0, state |-> "none"]

\* The locals of one call of main(), as they are when it is entered.
FreshCycle ==
    /\ all_coins' = <<>>
    /\ batch_start' = 0
    /\ tasks' = EmptyMap
    /\ all_results' = EmptyMap
    /\ hyper_data' = EmptyMap
    /\ markets' = <<>>
    /\ market_i' = 0
    /\ para_results' = <<>>
    /\ para_data' = EmptyMap
    /\ computed' = <<>>
    /\ arbitrage_opportunities' = <<>>
    /\ message' = NoMessage
    /\ users' = {}
    /\ sent' = <<>>
    /\ succeeded' = {}
    /\ para_req' = NoRequest

\* await main() in run_hourly: main() opens the session and awaits get_meta().
CallMain ==
    /\ sched' = "Running"
    /\ pc' = "hyper_meta"
    /\ cycle' = cycle + 1
    /\ last_start' = now
    /\ FreshCycle
    /\ UNCHANGED <<now, wake, outcome, envVars, cmdVars, store>>

\* run_hourly is entered: the first main() is called before any sleep.
Startup ==
    /\ pc = "startup"
    /\ CallMain

\* asyncio.sleep(wait_seconds) returns; the loop calls main() again.
WakeUpOnTimer ==
    /\ pc # "startup"
    /\ now = wake
    /\ CallMain
WakeUp ==
    /\ pc = "sleep"
    /\ now = wake
    /\ CallMain

\* Wall-clock time passes; a finished sleep returns before time moves on.
Tick ==
    /\ now < MaxTime
    /\ pc \notin {"startup", "run_polling"}
    /\ ~(pc = "sleep" /\ now = wake)
    /\ now' = now + 1
    /\ UNCHANGED <<sched, wake, cycle, pc, outcome, last_start, envVars,
                   cmdVars, hyperVars, paraVars, detVars, sendVars, histVars>>

\* main() returns to run_hourly, which computes the wait and sleeps.
ReturnToScheduler(how) ==
    /\ sched' = "Idle"
    /\ pc' = "sleep"
    /\ outcome' = how
    /\ wake' = NextHour(now)
    /\ UNCHANGED <<now, cycle, last_start>>

\* An exception leaves run_hourly: the loop is over.
SchedulerDies ==
    /\ sched' = "Stopped"
    /\ pc' = "stopped"
    /\ outcome' = "raised"
    /\ UNCHANGED <<now, wake, cycle, last_start>>

\* except Exception as e: in main(). Every error modelled here is an
\* Exception (network, JSON, KeyError, ValueError).
MainCatchesNothing == FALSE
MainCatches == TRUE

\* An exception raised inside main()'s try block; `what` is the message
\* main() prints.
RaiseSwallowed(what) ==
    /\ pc' = "detect"
    /\ UNCHANGED <<now, sched, wake, cycle, outcome, last_start>>
RaiseInMain(what) ==
    IF MainCatches THEN ReturnToScheduler(what) ELSE SchedulerDies

Errors == {"error: hyperliquid listing", "error: paradex listing"}

\* ------------------------------------------- get_hyperliquid_funding
\* get_meta(): [coin['name'] for coin in universe if not isDelisted]
Name(coin) == coin.name
NonDelisted(universe) ==
    LET kept == SelectSeq(universe, LAMBDA coin : ~coin.isDelisted)
    IN [i \in 1 .. Len(kept) |-> Name(kept[i])]

\* batch = all_coins[i:i + 5]
BatchOfOneMore(coins, i) ==
    {coins[j] : j \in (i + 1) .. Min(i + BatchSize + 1, Len(coins))}
BatchOf(coins, i) ==
    {coins[j] : j \in (i + 1) .. Min(i + BatchSize, Len(coins))}

\* A coroutine get_funding_for_coin in iteration `attempt` of its loop: it
\* has just issued one more request (session.post) and awaits the response.
\* issued counts the requests it has made (history, not read by the code).
Requesting(attempt, issued) ==
    [phase |-> "request", attempt |-> attempt, issued |-> issued + 1,
     pause |-> 0, rate |-> 0]

\* tasks = [...]; asyncio.gather(*tasks): every coroutine of the batch runs
\* to its first await, the request.
StartBatch(coins, i) ==
    /\ batch_start' = i
    /\ tasks' = [c \in BatchOf(coins, i) |-> Requesting(0, 0)]

\* return {data['coin']: data['funding_rate'] ...}; main() then awaits the
\* market listing of get_paradex_funding.
HyperReturn(results) ==
    /\ hyper_data' = results
    /\ pc' = "para_meta"

\* get_meta() answers.
HyperMetaOk ==
    /\ pc = "hyper_meta"
    /\ all_coins' = NonDelisted(hyper_listing)
    /\ IF all_coins' = <<>>
       THEN /\ HyperReturn(all_results)
            /\ UNCHANGED <<batch_start, tasks>>
       ELSE /\ StartBatch(all_coins', 0)
            /\ pc' = "hyper_batch"
            /\ UNCHANGED hyper_data
    /\ UNCHANGED <<now, sched, wake, cycle, outcome, last_start, envVars,
                   cmdVars, all_results, paraVars, detVars, sendVars,
                   histVars>>

\* get_meta() raises (network error, bad JSON, no 'universe' key): the
\* exception leaves get_hyperliquid_funding and reaches main()'s handler.
HyperMetaFail ==
    /\ pc = "hyper_meta"
    /\ RaiseInMain("error: hyperliquid listing")
    /\ UNCHANGED <<envVars, cmdVars, hyperVars, paraVars, detVars,
                   sendVars, histVars>>

TaskFrame ==
    UNCHANGED <<schedVars, envVars, cmdVars, all_coins, batch_start,
                all_results, hyper_data, paraVars, detVars, sendVars,
                para_req>>

\* status 200 and a non-empty history: return the latest entry.
TaskOk(c) ==
    /\ pc = "hyper_batch"
    /\ c \in DOMAIN tasks
    /\ tasks[c].phase = "request"
    /\ \E r \in hyper_quotes :
          tasks' = [tasks EXCEPT ![c] = [@ EXCEPT !.phase = "ok", !.rate = r]]
    /\ succeeded' = succeeded \cup {<<"hyper", c>>}
    /\ TaskFrame

\* status other than 200, or an empty history: await asyncio.sleep(0.1)
TaskNoData(c) ==
    /\ pc = "hyper_batch"
    /\ c \in DOMAIN tasks
    /\ tasks[c].phase = "request"
    /\ tasks' = [tasks EXCEPT ![c] =
                    [@ EXCEPT !.phase = "sleep", !.pause = StatusPauseMs]]
    /\ UNCHANGED succeeded
    /\ TaskFrame

\* the request, the JSON decoding or float() raises:
\* except Exception: await asyncio.sleep(0.2 * (attempt + 1))
TaskExc(c) ==
    /\ pc = "hyper_batch"
    /\ c \in DOMAIN tasks
    /\ tasks[c].phase = "request"
    /\ tasks' = [tasks EXCEPT ![c] =
                    [@ EXCEPT !.phase = "sleep",
                              !.pause = BackoffMs * (tasks[c].attempt + 1)]]
    /\ UNCHANGED succeeded
    /\ TaskFrame

\* for attempt in range(retries): is there another iteration?
MayRetry(attempt) == attempt + 1 < Retries

\* the pause of a failed attempt is over: the next attempt, or return None.
TaskWake(c) ==
    /\ pc = "hyper_batch"
    /\ c \in DOMAIN tasks
    /\ tasks[c].phase = "sleep"
    /\ IF MayRetry(tasks[c].attempt)
       THEN tasks' = [tasks EXCEPT ![c] = Requesting(@.attempt + 1, @.issued)]
       ELSE tasks' = [tasks EXCEPT ![c] = [@ EXCEPT !.phase = "none", !.pause = 0]]
    /\ UNCHANGED succeeded
    /\ TaskFrame

Finished(task) == task.phase \in {"ok", "none"}

\* results = await asyncio.gather(*tasks) returns once every coroutine of
\* the batch has returned; all_results.extend(r for r in results if r is
\* not None); await asyncio.sleep(0.2)
GatherDone(ts) == \A c \in DOMAIN ts : Finished(ts[c])

\* [r for r in results if r is not None]
NotNoneAll(ts) == [c \in DOMAIN ts |-> ts[c].rate]
NotNone(ts) == [c \in {x \in DOMAIN ts : ts[x].phase = "ok"} |-> ts[c].rate]

BatchJoin ==
    /\ pc = "hyper_batch"
    /\ GatherDone(tasks)
    /\ all_results' = NotNone(tasks) @@ all_results
    /\ pc' = "hyper_pause"
    /\ UNCHANGED <<now, sched, wake, cycle, outcome, last_start, envVars,
                   cmdVars, all_coins, batch_start, tasks, hyper_data,
                   paraVars,
                   detVars, sendVars, histVars>>

\* the inter-batch sleep is over: the next batch, or the return.
HyperPauseDone ==
    /\ pc = "hyper_pause"
    /\ IF batch_start + BatchSize < Len(all_coins)
       THEN /\ StartBatch(all_coins, batch_start + BatchSize)
            /\ pc' = "hyper_batch"
            /\ UNCHANGED hyper_data
       ELSE /\ HyperReturn(all_results)
            /\ UNCHANGED <<batch_start, tasks>>
    /\ UNCHANGED <<now, sched, wake, cycle, outcome, last_start, envVars,
                   cmdVars, all_coins, all_results, paraVars, detVars,
                   sendVars, histVars>>

\* ------------------------------------------------ get_paradex_funding
\* ticker = market.split('-')[0]; a market symbol is the sequence of its
\* '-'-separated parts.
Ticker(market) == market[1]

\* {data['coin']: data['funding_rate'] for data in all_results}: a later
\* entry of the same ticker replaces an earlier one.
RECURSIVE ToDict(_)
ToDict(results) ==
    IF results = <<>> THEN EmptyMap
    ELSE LET last == results[Len(results)]
         IN (last.coin :> last.funding_rate)
               @@ ToDict(SubSeq(results, 1, Len(results) - 1))

\* The loop goes on to the next market (its request is awaited), or the
\* function returns its dict to main().
ParaNext(results) ==
    IF market_i < Len(markets)
    THEN /\ market_i' = market_i + 1
         /\ para_req' = [issued |-> 1, state |-> "request"]
         /\ pc' = "para_fetch"
         /\ UNCHANGED para_data
    ELSE /\ para_data' = ToDict(results)
         /\ pc' = "detect"
         /\ UNCHANGED <<market_i, para_req>>

\* the market listing answers.
ParaMetaOk ==
    /\ pc = "para_meta"
    /\ markets' = [i \in 1 .. Len(para_listing) |-> para_listing[i].symbol]
    /\ IF markets' = <<>>
       THEN /\ para_data' = EmptyMap
            /\ pc' = "detect"
            /\ UNCHANGED <<market_i, para_req>>
       ELSE /\ market_i' = 1
            /\ para_req' = [issued |-> 1, state |-> "request"]
            /\ pc' = "para_fetch"
            /\ UNCHANGED para_data
    /\ UNCHANGED <<now, sched, wake, cycle, outcome, last_start, envVars,
                   cmdVars, hyperVars, para_results, detVars, sendVars,
                   succeeded>>

\* the market listing raises: the exception reaches main()'s handler.
ParaMetaFail ==
    /\ pc = "para_meta"
    /\ RaiseInMain("error: paradex listing")
    /\ UNCHANGED <<envVars, cmdVars, hyperVars, paraVars, detVars,
                   sendVars, histVars>>

ParaFrame ==
    UNCHANGED <<now, sched, wake, cycle, outcome, last_start, envVars, cmdVars,
                hyperVars, markets, detVars, sendVars>>

\* status 200, results[0] holds a funding_rate: append, then sleep(0.2)
ParaOk ==
    /\ pc = "para_fetch"
    /\ \E r \in para_quotes :
          para_results' = Append(para_results,
              [coin |-> Ticker(markets[market_i]), funding_rate |-> r])
    /\ pc' = "para_pause"
    /\ para_req' = [para_req EXCEPT !.state = "ok"]
    /\ succeeded' = succeeded \cup {<<"para", market_i>>}
    /\ UNCHANGED <<market_i, para_data>>
    /\ ParaFrame

\* status 200, results[0] has no funding_rate key:
\* float(latest.get('funding_rate', '0')) is 0.0
ParaNoRateField ==
    /\ pc = "para_fetch"
    /\ para_results' = Append(para_results,
          [coin |-> Ticker(markets[market_i]), funding_rate |-> 0])
    /\ pc' = "para_pause"
    /\ para_req' = [para_req EXCEPT !.state = "ok"]
    /\ succeeded' = succeeded \cup {<<"para", market_i>>}
    /\ UNCHANGED <<market_i, para_data>>
    /\ ParaFrame

\* status other than 200, or no results: nothing appended, then sleep(0.2)
ParaNoData ==
    /\ pc = "para_fetch"
    /\ pc' = "para_pause"
    /\ para_req' = [para_req EXCEPT !.state = "failed"]
    /\ UNCHANGED <<market_i, para_results, para_data, succeeded>>
    /\ ParaFrame

\* the request or its decoding raises: except Exception: continue
ParaExc ==
    /\ pc = "para_fetch"
    /\ ParaNext(para_results)
    /\ UNCHANGED <<para_results, succeeded>>
    /\ ParaFrame

\* the sleep after a market is over.
ParaPauseDone ==
    /\ pc = "para_pause"
    /\ ParaNext(para_results)
    /\ UNCHANGED <<para_results, succeeded>>
    /\ ParaFrame

\* ------------------------------------- detector and formatter in main
\* Lines 240-281 of main(): join the snapshots, rank, format; an empty
\* report ends the cycle, a non-empty one goes to send_telegram_message.
\* if arbitrage_opportunities: (a non-empty list is true)
HasOpportunitiesAlways(report) == TRUE
HasOpportunities(report) == report # <<>>

Detect ==
    /\ pc = "detect"
    /\ computed' = Opportunities(hyper_data, para_data, hashseed)
    /\ arbitrage_opportunities' = Ranked(computed')
    /\ message' = Format(arbitrage_opportunities', now)
    /\ IF HasOpportunities(arbitrage_opportunities')
       THEN /\ pc' = "send_load"
            /\ UNCHANGED <<now, sched, wake, cycle, outcome, last_start>>
       ELSE ReturnToScheduler("no_report")
    /\ UNCHANGED <<envVars, cmdVars, hyperVars, paraVars, sendVars, histVars>>

\* ----------------------------------------------- send_telegram_message
\* The users file: absent, or holding a list of chat ids; `writer` is
\* history (who wrote the file last), not read by the program.
NoFile == [exists |-> FALSE, ids |-> {}, writer |-> "nobody"]
Stored(ids, who) == [exists |-> TRUE, ids |-> ids, writer |-> who]

\* save_subscribed_users(users): json.dump(list(users), f) on the file
\* opened for writing.
SaveSubscribedUsers(us, who) == Stored(us, who)

\* load_subscribed_users(): set(json.load(f)); FileNotFoundError: set().
LoadIgnoringStore(st) == {}
LoadSubscribedUsers(st) == IF st.exists THEN st.ids ELSE {}

\* What load_subscribed_users() leaves in the store: on FileNotFoundError
\* it calls save_subscribed_users(set()), which creates the file.
StoreAfterLoadResets(st) == SaveSubscribedUsers({}, "load")
StoreAfterLoad(st) ==
    IF st.exists THEN st ELSE SaveSubscribedUsers({}, "load")

\* users = load_subscribed_users(); if not users: return; else the
\* Application is built and entered (async with ... as app).
SendLoad ==
    /\ pc = "send_load"
    /\ users' = LoadSubscribedUsers(store)
    /\ store' = StoreAfterLoad(store)
    /\ IF users' = {}
       THEN ReturnToScheduler("reported")
       ELSE /\ pc' = "send_init"
            /\ UNCHANGED <<now, sched, wake, cycle, outcome, last_start>>
    /\ UNCHANGED <<envVars, cmdVars, hyperVars, paraVars, detVars, sent,
                   histVars>>

\* the Application is initialised: the loop over users starts.
SendInitOk ==
    /\ pc = "send_init"
    /\ pc' = "send_deliver"
    /\ UNCHANGED <<now, sched, wake, cycle, outcome, last_start, envVars,
                   cmdVars, hyperVars, paraVars, detVars, sendVars, histVars>>

\* entering the Application raises: the outer except of
\* send_telegram_message prints it, and main() goes on.
SendInitFail ==
    /\ pc = "send_init"
    /\ ReturnToScheduler("reported")
    /\ UNCHANGED <<envVars, cmdVars, hyperVars, paraVars, detVars,
                   sendVars, histVars>>

Recipients(log) == {log[i].user : i \in 1 .. Len(log)}

\* for user_id in users: the loop is over once every user of the set was
\* visited; the try/except inside the loop keeps a failure from ending it.
LoopDoneOnFailure(us, log) ==
    us \subseteq Recipients(log) \/ \E i \in 1 .. Len(log) : ~log[i].ok
LoopDone(us, log) == us \subseteq Recipients(log)

\* await app.bot.send_message(chat_id=user_id, ...) for the next user of
\* the set, delivered or raising (caught and printed per user).
Deliver(u, delivered) ==
    /\ pc = "send_deliver"
    /\ u \in users \ Recipients(sent)
    /\ sent' = Append(sent, [user |-> u, ok |-> delivered])
    /\ pc' = IF LoopDone(users, sent') THEN "send_exit" ELSE "send_deliver"
    /\ UNCHANGED <<now, sched, wake, cycle, outcome, last_start, envVars,
                   cmdVars, hyperVars, paraVars, detVars, store, users,
                   histVars>>

\* the Application is left; send_telegram_message and main() return.
SendExit ==
    /\ pc = "send_exit"
    /\ ReturnToScheduler("reported")
    /\ UNCHANGED <<envVars, cmdVars, hyperVars, paraVars, detVars,
                   sendVars, histVars>>

\* ------------------------------------------------- command handlers
\* A handler runs from the arrival of its update to its first await, the
\* reply (update.message.reply_text), in one piece: load_subscribed_users
\* and save_subscribed_users are plain functions and nothing is awaited
\* between them. What follows the reply touches nothing.
\* users = load_subscribed_users(), as the handler holds it at its save.
HandlerLoadStale(st) == users
HandlerLoad(st) == LoadSubscribedUsers(StoreAfterLoad(st))

\* /start: users = load(); users.add(chat_id); save(users)
StartCommand(u) ==
    /\ pc # "startup"
    /\ store' = SaveSubscribedUsers(HandlerLoad(store) \cup {u}, "start")
    /\ last_started' = last_started \cup {u}
    /\ UNCHANGED <<schedVars, envVars, hyperVars, paraVars, detVars,
                   users, sent, histVars>>

\* /stop: users = load(); users.discard(chat_id); save(users)
StopCommand(u) ==
    /\ pc # "startup"
    /\ store' = SaveSubscribedUsers(HandlerLoad(store) \ {u}, "stop")
    /\ last_started' = last_started \ {u}
    /\ UNCHANGED <<schedVars, envVars, hyperVars, paraVars, detVars,
                   users, sent, histVars>>

\* ------------------------------------------------------ environments
\* A universe of n coins, coin d of them (if any) delisted.
UniverseOf(n, d) == [i \in 1 .. n |-> [name |-> i, isDelisted |-> (i = d)]]
\* The perpetual markets of n coins.
MarketsOf(n) == [i \in 1 .. n |-> [symbol |-> <<i, "USD", "PERP">>]]

HyperListings == {UniverseOf(n, d) : n \in 0 .. MaxListed, d \in 0 .. 1}
ParaListings == {MarketsOf(n) : n \in 0 .. MaxListed}

\* ---------------------------------------------------- specifications
InitIdle ==
    /\ sched = "Idle"
    /\ wake = now
    /\ cycle = 0
    /\ outcome = "none"
    /\ last_start = -1
    /\ all_coins = <<>>
    /\ batch_start = 0
    /\ tasks = EmptyMap
    /\ all_results = EmptyMap
    /\ hyper_data = EmptyMap
    /\ markets = <<>>
    /\ market_i = 0
    /\ para_results = <<>>
    /\ para_data = EmptyMap
    /\ computed = <<>>
    /\ arbitrage_opportunities = <<>>
    /\ message = NoMessage
    /\ users = {}
    /\ sent = <<>>
    /\ succeeded = {}
    /\ para_req = NoRequest
    /\ last_started = {}

\* The bot as run_bot starts it: run_hourly is about to be entered.
Init ==
    /\ now \in 0 .. (HourTicks - 1)
    /\ pc = "startup"
    /\ InitIdle
    /\ hyper_listing \in HyperListings
    /\ hyper_quotes = HyperRates
    /\ para_listing \in ParaListings
    /\ para_quotes = ParaRates
    /\ hashseed = 0
    /\ store \in {Stored({}, "nobody"), Stored(Chats, "nobody")}

\* One call of main() in flight, at position `at`.
InitRunning(at) ==
    /\ now = 0
    /\ pc = at
    /\ sched = "Running"
    /\ wake = 0
    /\ cycle = 1
    /\ outcome = "none"
    /\ last_start = 0
    /\ all_coins = <<>>
    /\ batch_start = 0
    /\ tasks = EmptyMap
    /\ all_results = EmptyMap
    /\ markets = <<>>
    /\ market_i = 0
    /\ para_results = <<>>
    /\ computed = <<>>
    /\ arbitrage_opportunities = <<>>
    /\ message = NoMessage
    /\ users = {}
    /\ sent = <<>>
    /\ succeeded = {}
    /\ para_req = NoRequest
    /\ last_started = {}
    /\ store = Stored(Chats, "nobody")

\* What the two snapshots may hold for one coin: both rates, or one only
\* (the detector never reads the rate of a coin that only one side has).
CoinCases ==
    {[inA |-> TRUE, inB |-> TRUE, a |-> x, b |-> y] :
        x \in HyperRates, y \in ParaRates}
    \cup {[inA |-> TRUE, inB |-> FALSE, a |-> x, b |-> 0] : x \in {2}}
    \cup {[inA |-> FALSE, inB |-> TRUE, a |-> 0, b |-> y] : y \in {1}}

\* The detector on its own: main() is at the join of two snapshots drawn
\* over TopN + ExtraCoins coins.
InitDetect ==
    /\ InitRunning("detect")
    /\ hyper_listing = <<>>
    /\ hyper_quotes = HyperRates
    /\ para_listing = <<>>
    /\ para_quotes = ParaRates
    /\ hashseed \in HashSeeds
    /\ \E f \in [DetectCoins -> CoinCases] :
          /\ hyper_data = [c \in {x \in DetectCoins : f[x].inA} |-> f[c].a]
          /\ para_data = [c \in {x \in DetectCoins : f[x].inB} |-> f[c].b]

\* The two adapters on their own: one cycle over a universe of more than one
\* batch, from the listing request to the detector; no rate the exchanges
\* report is zero, so that a zero in a snapshot is one the adapter made.
InitFetch ==
    /\ InitRunning("hyper_meta")
    /\ hyper_listing = UniverseOf(BatchSize + ExtraCoins, 0)
    /\ hyper_quotes = {2}
    /\ para_listing = MarketsOf(MaxListed + 1)
    /\ para_quotes = {1}
    /\ hashseed = 0
    /\ hyper_data = EmptyMap
    /\ para_data = EmptyMap

Fetch ==
    \/ HyperMetaOk
    \/ HyperMetaFail
    \/ \E c \in DOMAIN tasks : TaskOk(c)
    \/ \E c \in DOMAIN tasks : TaskNoData(c)
    \/ \E c \in DOMAIN tasks : TaskExc(c)
    \/ \E c \in DOMAIN tasks : TaskWake(c)
    \/ BatchJoin
    \/ HyperPauseDone
    \/ ParaMetaOk
    \/ ParaMetaFail
    \/ ParaOk
    \/ ParaNoRateField
    \/ ParaNoData
    \/ ParaExc
    \/ ParaPauseDone

Send ==
    \/ SendLoad
    \/ SendInitOk
    \/ SendInitFail
    \/ \E u \in Chats, delivered \in BOOLEAN : Deliver(u, delivered)
    \/ SendExit

Next ==
    \/ Startup
    \/ WakeUp
    \/ Tick
    \/ Fetch
    \/ Detect
    \/ Send

Spec == Init /\ [][Next]_vars

\* The bot over listings of MaxListed symbols each, with subscribers.
InitSched ==
    /\ now \in 0 .. (HourTicks - 1)
    /\ pc = "startup"
    /\ InitIdle
    /\ hyper_listing = UniverseOf(MaxListed, 0)
    /\ hyper_quotes = HyperRates
    /\ para_listing = MarketsOf(MaxListed)
    /\ para_quotes = ParaRates
    /\ hashseed = 0
    /\ store = Stored(Chats, "nobody")

\* Time passes and a finished sleep returns: the event loop's timers.
FairSpec == InitSched /\ [][Next]_vars /\ WF_vars(Tick) /\ WF_vars(WakeUp)

\* The steps the event loop takes by itself: a sleep that is over, a
\* coroutine that can go on without an answer from outside.
LoopSteps ==
    \/ Tick
    \/ WakeUp
    \/ \E c \in DOMAIN tasks : TaskWake(c)
    \/ BatchJoin
    \/ HyperPauseDone
    \/ ParaPauseDone
    \/ Detect
    \/ SendLoad
    \/ SendExit

\* Telegram answers a request (or the request raises).
TelegramAnswers ==
    \/ SendInitOk
    \/ SendInitFail
    \/ \E u \in Chats, delivered \in BOOLEAN : Deliver(u, delivered)

\* The bot on an event loop that runs every coroutine that can run, with
\* Telegram answering; whether an exchange answers a request is left open:
\* the adapters pass no timeout to session.post / session.get.
FairLoop == Spec /\ WF_vars(LoopSteps) /\ WF_vars(TelegramAnswers)

\* The bot with its command handlers: the pipeline over listings of
\* MaxListed symbols, no subscriber at the start (the users file absent or
\* empty), /start and /stop arriving at any time.
InitSubs ==
    /\ now = 0
    /\ pc = "startup"
    /\ InitIdle
    /\ hyper_listing = UniverseOf(MaxListed, 0)
    /\ hyper_quotes = {2}
    /\ para_listing = MarketsOf(MaxListed)
    /\ para_quotes = {1}
    /\ hashseed = 0
    /\ store \in {NoFile, Stored({}, "nobody")}

Handlers ==
    \/ \E u \in Chats : StartCommand(u)
    \/ \E u \in Chats : StopCommand(u)

NextSubs ==
    \/ Startup
    \/ WakeUp
    \/ Tick
    \/ Fetch
    \/ Detect
    \/ Send
    \/ Handlers

SpecSubs == InitSubs /\ [][NextSubs]_vars

\* bot.py: run_bot has entered the Application and app.start() has returned
\* (lines 329-331); the next statement is the call of app.run_polling.
InitBotPy ==
    /\ now \in 0 .. (HourTicks - 1)
    /\ pc = "run_polling"
    /\ InitIdle
    /\ hyper_listing = UniverseOf(MaxListed, 0)
    /\ hyper_quotes = HyperRates
    /\ para_listing = MarketsOf(MaxListed)
    /\ para_quotes = ParaRates
    /\ hashseed = 0
    /\ store = Stored(Chats, "nobody")

\* bot.py line 334: bot_task = app.run_polling(...) is a plain call, not
\* awaited, made before run_hourly() is even created (335) and outside the
\* try of line 338. Application.run_polling is the library's blocking entry
\* point: it drives the event loop itself (run_until_complete), which inside
\* the running loop of asyncio.run(run_bot()) raises RuntimeError. The
\* exception leaves `async with app` and run_bot: no coroutine of
\* run_hourly exists, main() is never called.
RunPolling ==
    /\ pc = "run_polling"
    /\ sched' = "Stopped"
    /\ pc' = "stopped"
    /\ outcome' = "raised"
    /\ UNCHANGED <<now, wake, cycle, last_start, envVars, cmdVars, hyperVars,
                   paraVars, detVars, sendVars, histVars>>

\* Either program of the repository, from the point where its Application
\* has started: FundingArbitrageBot.py enters run_hourly, bot.py calls
\* run_polling.
NextBoot == Next \/ RunPolling
SpecBoot == (InitSched \/ InitBotPy) /\ [][NextBoot]_vars

NextDetect == Detect
SpecDetect == InitDetect /\ [][NextDetect]_vars

NextFetch == Fetch \/ Detect
SpecFetch == InitFetch /\ [][NextFetch]_vars

\* ============================================================ claims
\* main() has run its detector block (lines 240-269) in this cycle.
Detected == pc \in {"send_load", "send_init", "send_deliver", "send_exit"}
               \/ (pc = "sleep" /\ outcome \in {"no_report", "reported"})

PctA(coin) == hyper_data[coin] * PctFactor
PctB(coin) == para_data[coin] * PctFactor

\* C1: every opportunity the detector computes has two different
\* directions, each "long" or "short", and the exchange whose percent rate
\* is strictly larger is the one labelled "short".
C1_DirectionsOpposite ==
    Detected =>
        \A i \in 1 .. Len(computed) :
            LET o == computed[i] IN
            /\ {o.hyper_direction, o.para_direction} = {"long", "short"}
            /\ PctA(o.coin) > PctB(o.coin) => o.hyper_direction = "short"
            /\ PctB(o.coin) > PctA(o.coin) => o.para_direction = "short"

C1_Witness ==
    /\ Detected
    /\ \E i, j, k \in 1 .. Len(computed) :
          /\ PctA(computed[i].coin) > PctB(computed[i].coin)
          /\ PctB(computed[j].coin) > PctA(computed[j].coin)
          /\ PctA(computed[k].coin) = PctB(computed[k].coin)

\* C2 as claimed: on equal percent rates Hyperliquid (A) is "short" and
\* Paradex (B) is "long".
C2_TieShortA ==
    Detected =>
        \A i \in 1 .. Len(computed) :
            PctA(computed[i].coin) = PctB(computed[i].coin) =>
                /\ computed[i].hyper_direction = "short"
                /\ computed[i].para_direction = "long"

\* C2 as amended: on equal percent rates the strict comparison fails, so
\* Hyperliquid (A) is "long" and Paradex (B) is "short".
C2_TieLongA ==
    Detected =>
        \A i \in 1 .. Len(computed) :
            PctA(computed[i].coin) = PctB(computed[i].coin) =>
                /\ computed[i].hyper_direction = "long"
                /\ computed[i].para_direction = "short"

C2_Witness ==
    /\ Detected
    /\ \E i \in 1 .. Len(arbitrage_opportunities) :
          LET o == arbitrage_opportunities[i] IN
          /\ o.coin \in DOMAIN hyper_data \cap DOMAIN para_data
          /\ PctA(o.coin) = PctB(o.coin)

\* C3: every returned opportunity's symbol is a key of both snapshots, and
\* the number of opportunities computed before truncation is at most
\* min(|A|, |B|).
C3_SymbolsShared ==
    Detected =>
        /\ \A i \in 1 .. Len(arbitrage_opportunities) :
              /\ arbitrage_opportunities[i].coin \in DOMAIN hyper_data
              /\ arbitrage_opportunities[i].coin \in DOMAIN para_data
        /\ \A i \in 1 .. Len(computed) :
              /\ computed[i].coin \in DOMAIN hyper_data
              /\ computed[i].coin \in DOMAIN para_data
        /\ Len(computed) <= Min(Cardinality(DOMAIN hyper_data),
                                Cardinality(DOMAIN para_data))

C3_Witness ==
    /\ Detected
    /\ Len(arbitrage_opportunities) >= 2
    /\ DOMAIN hyper_data \ DOMAIN para_data # {}
    /\ DOMAIN para_data \ DOMAIN hyper_data # {}
    /\ Cardinality(DOMAIN hyper_data) < Cardinality(DOMAIN para_data)

\* C4: the ranked report has at most 5 opportunities and its spreads are
\* non-increasing from one entry to the next.
C4_ReportRanked ==
    Detected =>
        /\ Len(arbitrage_opportunities) <= TopN
        /\ \A i \in 1 .. (Len(arbitrage_opportunities) - 1) :
              arbitrage_opportunities[i].difference
                 >= arbitrage_opportunities[i + 1].difference

C4_Witness ==
    /\ Detected
    /\ Len(computed) > TopN
    /\ Len(arbitrage_opportunities) = TopN
    /\ computed[1].difference < computed[Len(computed)].difference
    /\ arbitrage_opportunities[1].difference
          > arbitrage_opportunities[TopN].difference

\* ------------------------------------------------------ scheduler claims
\* A delivery of the finished cycle failed: a send_message raised, or the
\* Application could not be entered.
DeliveryFailed ==
    /\ users # {}
    /\ \/ \E i \in 1 .. Len(sent) : ~sent[i].ok
       \/ Recipients(sent) # users

\* The last cycle has returned and something in it failed.
CycleFailed ==
    /\ pc = "sleep"
    /\ outcome \in Errors \/ (outcome = "reported" /\ DeliveryFailed)

\* C5: a cycle that fails (a listing raises, a delivery raises) never ends
\* run_hourly: the scheduler is Idle again once the cycle has returned, and
\* a later cycle is started (within the modelled time line).
C5_FailedCycleLoopGoesOn ==
    /\ [](sched # "Stopped")
    /\ [](CycleFailed => sched = "Idle")
    /\ [][(sched = "Idle" /\ sched' = "Running")
             => (cycle' = cycle + 1 /\ last_start' = now)]_vars
    /\ (CycleFailed /\ wake <= MaxTime) ~> (sched = "Running")

C5_Witness ==
    /\ cycle = 3
    /\ sched = "Running"
    /\ outcome \in Errors

\* C6 as claimed: when time moves past an hour boundary after the startup,
\* a cycle was started at that boundary.
C6_EveryBoundaryStartsCycle ==
    [][(now' = now + 1 /\ now % HourTicks = 0 /\ cycle >= 1)
          => last_start = now]_vars

\* C6 as amended: every cycle after the startup cycle starts at an hour
\* boundary, which is the first boundary after the instant the preceding
\* cycle returned; time never moves past that boundary while the scheduler
\* sleeps.
C6_StartsAtNextBoundary ==
    /\ [][(cycle' = cycle + 1 /\ cycle >= 1)
             => (now % HourTicks = 0 /\ now = wake /\ last_start' = now)]_vars
    /\ [][(pc # "sleep" /\ pc' = "sleep")
             => (/\ wake' % HourTicks = 0
                 /\ wake' > now
                 /\ wake' - now <= HourTicks)]_vars
    /\ [][(pc = "sleep" /\ now' # now) => now < wake]_vars

C6_Witness ==
    /\ cycle = 2
    /\ pc = "hyper_meta"
    /\ outcome \in Errors
    /\ last_start = now
    /\ now = HourTicks

\* -------------------------------------------------------- adapter claims
HyperPcs == {"hyper_meta", "hyper_batch", "hyper_pause"}
ParaPcs == {"para_meta", "para_fetch", "para_pause"}

\* get_hyperliquid_funding / get_paradex_funding has returned its dict to
\* the running main().
HyperReturned ==
    /\ pc \notin ({"startup", "stopped"} \cup HyperPcs)
    /\ pc = "sleep" => outcome # "error: hyperliquid listing"

ParaReturned ==
    /\ pc \notin ({"startup", "stopped"} \cup HyperPcs \cup ParaPcs)
    /\ pc = "sleep" => outcome \notin Errors

CoinsListed == {all_coins[i] : i \in 1 .. Len(all_coins)}
HyperSucceeded == {c \in CoinsListed : <<"hyper", c>> \in succeeded}
MarketsSucceeded == {i \in 1 .. Len(markets) : <<"para", i>> \in succeeded}

\* One step of a Hyperliquid fetch obeys the retry rule: at most Retries
\* requests, a failed attempt below the limit is followed by another
\* request, None only after the last one, nothing after a success.
HyperRetryRule ==
    \A c \in DOMAIN tasks \cap DOMAIN tasks' :
       batch_start' = batch_start =>
          /\ tasks'[c].issued <= Retries
          /\ tasks[c].phase = "ok" => tasks'[c] = tasks[c]
          /\ (tasks[c].phase = "sleep" /\ tasks'[c] # tasks[c])
                => IF tasks[c].issued < Retries
                   THEN /\ tasks'[c].phase = "request"
                        /\ tasks'[c].issued = tasks[c].issued + 1
                   ELSE tasks'[c].phase = "none"
          /\ (pc' = "hyper_pause" /\ tasks[c].phase = "none")
                => (c \notin DOMAIN all_results' /\ sched' = "Running")

\* One step of the Paradex loop obeys the retry rule: at most Retries
\* requests for a market, and the loop leaves a market only after a success
\* or after the last attempt.
ParaRetryRule ==
    /\ para_req'.issued <= Retries
    /\ (/\ pc \in {"para_fetch", "para_pause"}
        /\ market_i' # market_i \/ pc' = "detect")
          => (<<"para", market_i>> \in succeeded \/ para_req.issued = Retries)

\* C7 as claimed: in each of the two adapters a symbol whose fetch fails is
\* requested again until it succeeds or Retries requests were made, never
\* more, never after a success, and an exhausted symbol is dropped from the
\* snapshot while the cycle goes on.
C7_RetriedUpToThree == [][HyperRetryRule /\ ParaRetryRule]_vars

\* C8: an adapter raises only where its listing request raises (no
\* per-symbol request was made); once it has returned, its snapshot holds
\* exactly the symbols whose request got a usable answer, whichever failed.
C8_SnapshotIsSucceeded ==
    /\ HyperReturned => DOMAIN hyper_data = HyperSucceeded
    /\ ParaReturned =>
          DOMAIN para_data = {markets[i][1] : i \in MarketsSucceeded}
    /\ (pc = "sleep" /\ outcome = "error: hyperliquid listing")
          => (all_coins = <<>> /\ succeeded = {})
    /\ (pc = "sleep" /\ outcome = "error: paradex listing")
          => (markets = <<>> /\ MarketsSucceeded = {})

C8_Witness ==
    /\ pc = "detect"
    /\ HyperSucceeded \notin {{}, CoinsListed}
    /\ MarketsSucceeded # {}
    /\ Cardinality(MarketsSucceeded) < Len(markets)
    /\ \E c \in CoinsListed \ HyperSucceeded : c > BatchSize

\* Every per-symbol fetch of the adapter was made and none got an answer.
AllFailedHyper ==
    /\ HyperReturned
    /\ all_coins # <<>>
    /\ HyperSucceeded = {}

AllFailedPara ==
    /\ ParaReturned
    /\ markets # <<>>
    /\ MarketsSucceeded = {}

\* C9 as claimed: once every per-symbol fetch of an adapter has failed, the
\* adapter's call has raised: the cycle is over with an error outcome.
C9_AllFailedRaises ==
    (AllFailedHyper \/ AllFailedPara) => (pc = "sleep" /\ outcome \in Errors)

\* C9 as amended: an adapter whose per-symbol fetches all fail returns an
\* empty snapshot and raises nothing; the detector then finds no shared
\* symbol and the cycle ends without a report and without an error, unless
\* the listing of the other exchange raises.
C9_AllFailedEmptySnapshot ==
    /\ AllFailedHyper =>
          /\ hyper_data = EmptyMap
          /\ pc = "sleep" => outcome \in {"no_report", "error: paradex listing"}
    /\ AllFailedPara =>
          /\ para_data = EmptyMap
          /\ pc = "sleep" => outcome = "no_report"
    /\ (AllFailedHyper \/ AllFailedPara) =>
          /\ pc \notin {"send_load", "send_init", "send_deliver", "send_exit"}
          /\ arbitrage_opportunities = <<>>
          /\ message = NoMessage

C9_Witness ==
    /\ AllFailedHyper
    /\ MarketsSucceeded # {}
    /\ pc = "sleep"
    /\ outcome = "no_report"

InFlightHyper ==
    IF pc = "hyper_batch"
    THEN Cardinality({c \in DOMAIN tasks : tasks[c].phase = "request"})
    ELSE 0

InFlightPara == IF pc = "para_fetch" /\ para_req.state = "request" THEN 1 ELSE 0

\* C10: never more than BatchSize per-symbol requests are in flight to one
\* exchange (one at a time for Paradex), and the fetches of a batch are
\* started only when every fetch of the batch before it has returned.
C10_AtMostFiveInFlight ==
    /\ [](InFlightHyper <= BatchSize /\ InFlightPara <= 1)
    /\ [](Cardinality(DOMAIN tasks) <= BatchSize)
    /\ [][(batch_start' # batch_start \/ DOMAIN tasks' # DOMAIN tasks)
             => (/\ \A c \in DOMAIN tasks : tasks[c].phase \in {"ok", "none"}
                 /\ all_coins # <<>> => pc = "hyper_pause"
                 /\ \A c \in DOMAIN tasks' : tasks'[c].issued = 1)]_vars

C10_Witness ==
    /\ pc = "hyper_batch"
    /\ batch_start = BatchSize
    /\ InFlightHyper >= 1
    /\ \E c \in DOMAIN tasks : tasks[c].issued = Retries
    /\ Cardinality(DOMAIN all_results) < BatchSize

\* ------------------------------------------------------- delivery claims
SendPcs == {"send_load", "send_init", "send_deliver", "send_exit"}

\* Number of send_message calls made for user u in the current cycle.
AttemptsOf(u) == Cardinality({i \in 1 .. Len(sent) : sent[i].user = u})

\* C11 as claimed: a cycle that has built a report and loaded the
\* subscriber set has, once it is over, attempted the delivery exactly once
\* for every subscriber of the set.
C11_EachSubscriberAttemptedOnce ==
    (pc = "sleep" /\ outcome = "reported") =>
        \A u \in users : AttemptsOf(u) = 1

\* C11 as amended: nobody is attempted twice; once the loop over the
\* subscribers is over everybody was attempted exactly once, failures
\* included; the delivery step always ends the cycle without error, and it
\* ends it short of the loop only when the subscriber set is empty or when
\* entering the Telegram application raised, with no attempt made at all.
C11_AttemptedOnceWhenEntered ==
    /\ [](\A u \in Chats : AttemptsOf(u) <= 1)
    /\ [](Recipients(sent) \subseteq users)
    /\ [](pc = "send_exit" => \A u \in users : AttemptsOf(u) = 1)
    /\ [][(pc \in SendPcs /\ pc' \notin SendPcs)
             => (/\ pc' = "sleep"
                 /\ outcome' = "reported"
                 /\ sched' = "Idle"
                 /\ \/ pc = "send_exit"
                    \/ pc = "send_init" /\ sent = <<>>
                    \/ pc = "send_load" /\ users' = {})]_vars

C11_Witness ==
    /\ pc = "sleep"
    /\ outcome = "reported"
    /\ users = Chats
    /\ Len(sent) = Cardinality(Chats)
    /\ ~sent[1].ok
    /\ sent[2].ok

\* C12: when the ranked report of a cycle is empty, no payload exists, the
\* subscriber set is not loaded, nothing is sent, and the cycle is over
\* without an error.
C12_EmptyReportNoDelivery ==
    (Detected /\ arbitrage_opportunities = <<>>) =>
        /\ message = NoMessage
        /\ pc = "sleep"
        /\ outcome = "no_report"
        /\ sched = "Idle"
        /\ users = {}
        /\ sent = <<>>

C12_Witness ==
    /\ pc = "sleep"
    /\ outcome = "no_report"
    /\ hyper_data = EmptyMap
    /\ para_data # EmptyMap
    /\ arbitrage_opportunities = <<>>

\* -------------------------------------------------- subscriber claims
\* C13 as claimed: the users file is written by the /start and /stop
\* handlers only.
C13_PipelineNeverWrites ==
    [][store' # store => store'.writer \in {"start", "stop"}]_vars

\* C13 as amended: the pipeline never changes the set of stored subscribers;
\* the one write it makes is the creation of an empty users file by
\* load_subscribed_users when the file does not exist.
C13_PipelineKeepsSubscribers ==
    /\ [][store' # store =>
             \/ store'.writer \in {"start", "stop"}
             \/ /\ pc = "send_load"
                /\ ~store.exists
                /\ store' = [exists |-> TRUE, ids |-> {}, writer |-> "load"]]_vars
    /\ [][pc' # pc =>
             (IF store'.exists THEN store'.ids ELSE {})
                = (IF store.exists THEN store.ids ELSE {})]_vars

C13_Witness ==
    /\ pc = "sleep"
    /\ outcome = "reported"
    /\ store = [exists |-> TRUE, ids |-> {}, writer |-> "load"]
    /\ users = {}

\* C15: the subscriber set of a delivery is the content of the store at
\* the cycle's own load: it is empty from the start of the cycle to the
\* load, it is set by the load only, and the loop attempts exactly its
\* members.
C15_SubscribersReadEachCycle ==
    /\ [][(pc = "send_load" /\ pc' # pc)
             => users' = (IF store.exists THEN store.ids ELSE {})]_vars
    /\ [][users' # users
             => (pc = "send_load" \/ (pc' = "hyper_meta" /\ users' = {}))]_vars
    /\ [](pc \in (HyperPcs \cup ParaPcs \cup {"detect", "send_load"})
             => (users = {} /\ sent = <<>>))
    /\ [](pc = "send_exit" => Recipients(sent) = users)

C15_Witness ==
    /\ cycle = 2
    /\ pc = "send_exit"
    /\ users = Chats
    /\ store.writer = "start"
    /\ Recipients(sent) = Chats

\* ------------------------------------------------------ no-data claims
\* Hyperliquid: a coin whose attempt found no data is not among the
\* results, and every rate of the snapshot was sent by the exchange.
HyperNoDataAbsent ==
    /\ \A c \in DOMAIN tasks :
          tasks[c].phase \in {"sleep", "none"} => c \notin DOMAIN all_results
    /\ HyperReturned =>
          \A c \in DOMAIN hyper_data :
             <<"hyper", c>> \in succeeded /\ hyper_data[c] \in hyper_quotes

\* Paradex: every rate of the results, and so of the snapshot, was sent by
\* the exchange.
ParaNoDataAbsent ==
    /\ \A i \in 1 .. Len(para_results) :
          para_results[i].funding_rate \in para_quotes
    /\ ParaReturned =>
          \A c \in DOMAIN para_data : para_data[c] \in para_quotes

\* C14 as claimed: in both adapters a symbol without data is absent from
\* the snapshot, and a rate in a snapshot is a rate the exchange reported:
\* with exchanges that report no zero rate, no snapshot holds a zero.
C14_ZeroOnlyIfReported == HyperNoDataAbsent /\ ParaNoDataAbsent

\* --------------------------------------------------------- join claims
\* C16: main() reaches the detector only from the return of the Paradex
\* adapter, with every Hyperliquid fetch of the cycle finished and both
\* snapshots holding the answers of this cycle; the detector's results
\* are written at that step only; a cycle whose listing request raised
\* has computed nothing, built no payload and sent nothing.
C16_DetectorAfterBothSnapshots ==
    /\ [][(pc' = "detect" /\ pc # "detect") =>
             /\ pc \in ParaPcs
             /\ \A c \in DOMAIN tasks : tasks[c].phase \in {"ok", "none"}
             /\ hyper_data' = hyper_data
             /\ DOMAIN hyper_data = HyperSucceeded
             /\ DOMAIN para_data' = {markets'[i][1] : i \in
                   {j \in 1 .. Len(markets') : <<"para", j>> \in succeeded'}}
             /\ computed' = <<>>]_vars
    /\ [][(computed' # computed \/ message' # message) =>
             (pc = "detect" \/ pc' = "hyper_meta")]_vars
    /\ [](pc \in (HyperPcs \cup ParaPcs \cup {"detect"}) =>
             (computed = <<>> /\ message = NoMessage /\ sent = <<>>))
    /\ []((pc = "sleep" /\ outcome \in Errors) =>
             /\ computed = <<>>
             /\ arbitrage_opportunities = <<>>
             /\ message = NoMessage
             /\ users = {}
             /\ sent = <<>>)

C16_Witness ==
    /\ cycle = 2
    /\ pc = "detect"
    /\ hyper_data # EmptyMap
    /\ para_data # EmptyMap
    /\ outcome \in Errors

\* ----------------------------------------------------- detector claims
\* The ranked report the detector block yields on the snapshots of the
\* current state when the set of shared symbols iterates as under `seed`.
ReportUnder(seed) == Ranked(Opportunities(hyper_data, para_data, seed))

Spreads(report) == [i \in 1 .. Len(report) |-> report[i].difference]

\* The spread of the report's i-th entry is the spread of no other shared
\* symbol.
UniqueSpread(report, i) ==
    \A j \in 1 .. Len(computed) :
       computed[j].difference = report[i].difference
          => computed[j].coin = report[i].coin

NonBlank(text) == SelectSeq(text, LAMBDA line : line # Blank)

\* C18: for an empty report there is no payload; for a report of n
\* opportunities (1 <= n <= TopN) the non-blank lines of the payload are
\* the header line and then, for each opportunity in report order, its
\* symbol line, Hyperliquid line, Paradex line and spread line: 1 + 4n
\* lines.
C18_PayloadLines ==
    Detected =>
        LET report == arbitrage_opportunities
            n == Len(report)
            lines == NonBlank(message)
        IN IF n = 0
           THEN message = NoMessage
           ELSE /\ n <= TopN
                /\ Len(lines) = 1 + 4 * n
                /\ lines[1][1] = "header"
                /\ \A i \in 1 .. n :
                      LET at == 4 * (i - 1) + 1 IN
                      /\ lines[at + 1] = <<"symbol", report[i].coin>>
                      /\ lines[at + 2] = <<"Hyperliquid",
                            report[i].hyper_direction, report[i].hyper_rate>>
                      /\ lines[at + 3] = <<"Paradex",
                            report[i].para_direction, report[i].para_rate>>
                      /\ lines[at + 4] = <<"Difference", report[i].difference>>

C18_Witness ==
    /\ Detected
    /\ Len(arbitrage_opportunities) = TopN
    /\ Len(computed) > TopN
    /\ Len(NonBlank(message)) = 1 + 4 * TopN
    /\ Len(message) > Len(NonBlank(message))

\* ------------------------------------------------------ latency claims
\* C19 as claimed: every started cycle finishes and the scheduler is Idle
\* again, also when an exchange never answers a request.
C19_CycleFinishes == (sched = "Running") ~> (sched = "Idle")

\* The pause a fetch of the current batch slept before the request it
\* makes in this step, for the coins that make one.
Reattempted ==
    {c \in DOMAIN tasks \cap DOMAIN tasks' :
        /\ batch_start' = batch_start
        /\ tasks'[c].issued = tasks[c].issued + 1}

\* C20 as claimed: an attempt that follows failed attempt k of the same
\* symbol starts after a pause of BackoffMs * k, whatever the kind of the
\* failure.
C20_PauseGrows ==
    [][\A c \in Reattempted :
          /\ tasks[c].phase = "sleep"
          /\ tasks[c].pause = BackoffMs * tasks[c].issued]_vars

\* --------------------------------------------------------------- C21
\* A step that issues the requests of a later batch of Hyperliquid coins.
NextBatchIssued == batch_start' > batch_start

\* A step that issues the request of a later Paradex market.
NextMarketIssued == market_i >= 1 /\ market_i' = market_i + 1

\* Hyperliquid: a later batch is issued only by the return of the
\* inter-batch sleep.
HyperPauseRule == [][NextBatchIssued => pc = "hyper_pause"]_vars

\* Paradex: the request of a later market is issued only by the return of
\* the sleep that follows the previous market.
ParaPauseRule == [][NextMarketIssued => pc = "para_pause"]_vars

\* C21 as claimed: in each adapter the requests of a later batch are issued
\* only after the fixed 200 ms pause that follows the previous batch has
\* elapsed, also when the previous batch failed.
C21_PauseBetweenBatches ==
    /\ HyperPauseRule
    /\ ParaPauseRule

\* --------------------------------------------------------------- C22
\* run_bot has started the Application and has not yet gone on.
AppStarted == pc \in {"startup", "run_polling"}

\* C22 as claimed: once the application has started, the next thing the
\* program does is call main() for the first cycle, at that very instant,
\* with no sleep before it.
C22_FirstCycleAtStartup ==
    [][AppStarted => (/\ sched' = "Running"
                      /\ cycle' = 1
                      /\ last_start' = now
                      /\ now' = now)]_vars

\* --------------------------------------------------------------- C23
\* The positions of main() inside one cycle.
CyclePcs == HyperPcs \cup ParaPcs \cup {"detect"} \cup SendPcs

\* The locals of main() and of the functions it calls.
cycleLocals == <<hyperVars, paraVars, detVars, users, sent>>

\* C23: a cycle starts only while no cycle is running (main() is called
\* from the startup or from a finished sleep, after the previous call has
\* returned); main() is inside a cycle exactly while the scheduler is
\* Running; the cycle counter does not move during a cycle; and every
\* fetch, detect, format and deliver step belongs to the one running cycle.
C23_OneCycleInFlight ==
    /\ [][cycle' # cycle => (/\ sched = "Idle"
                             /\ pc \in {"startup", "sleep"}
                             /\ sched' = "Running"
                             /\ cycle' = cycle + 1)]_vars
    /\ [](sched = "Running" <=> pc \in CyclePcs)
    /\ [][sched = "Running" => cycle' = cycle]_vars
    /\ [][cycleLocals' # cycleLocals =>
             (sched = "Running" \/ cycle' = cycle + 1)]_vars

\* A cycle still running when the hour turns: the instant at which a
\* timer-driven scheduler would have started the next one.
C23_Witness ==
    /\ sched = "Running"
    /\ cycle = 1
    /\ pc = "send_deliver"
    /\ now >= NextHour(last_start)

\* --------------------------------------------------------------- C24
\* The chat ids the users file holds.
StoredIds == IF store.exists THEN store.ids ELSE {}

\* C24: whatever the interleaving of /start and /stop commands with each
\* other and with the steps of running cycles, the store holds exactly the
\* chats whose last command was /start; a command changes the store by its
\* own chat only, and no step of the pipeline changes the stored set.
C24_NoLostUpdate ==
    /\ [](StoredIds = last_started)
    /\ [][last_started' # last_started =>
             \E u \in Chats :
                \/ StoredIds' = StoredIds \cup {u} /\ store'.writer = "start"
                \/ StoredIds' = StoredIds \ {u} /\ store'.writer = "stop"]_vars
    /\ [][last_started' = last_started => StoredIds' = StoredIds]_vars

\* A cycle that loaded both subscribers is delivering when one of them
\* unsubscribes: the store keeps the other one.
C24_Witness ==
    /\ pc = "send_deliver"
    /\ users = Chats
    /\ Len(sent) = 1
    /\ store.writer = "stop"
    /\ Cardinality(last_started) = 1
    /\ StoredIds = last_started
====
